---- MODULE Spec2Model ----
(***************************************************************************)
(* PomodoroTimer (src/Website/src/App.js): the React component's state,    *)
(* its refs, the browser's frame-callback and timeout queues, and one      *)
(* action per turn of the event loop.                                      *)
(*                                                                         *)
(* Conventions                                                             *)
(*  - The clock is in whole milliseconds.  `now` is the monotonic clock    *)
(*    read by performance.now().  A frame callback is handed the time its  *)
(*    frame began, which is at most `now`.                                 *)
(*  - `elapsed` (seconds) and startTimestampRef (milliseconds) are         *)
(*    JavaScript numbers, IEEE 754 doubles: each is kept as the exact      *)
(*    value of the double, and the arithmetic of lines 110-117 rounds as   *)
(*    the double arithmetic does (section Numbers).  secondsLeft and       *)
(*    totalSecondsRef are whole seconds, as in the code.                   *)
(*  - The state variables hold the values of the last render.  A click is  *)
(*    one action: the handler, the render of its updates and the effects   *)
(*    and effect cleanups of that render.  Updates made in a frame         *)
(*    callback, in a timeout callback or in an effect wait in `pending`    *)
(*    for a render of their own (React 18 batching): the action `render`.  *)
(*    A click that comes before that render renders its own updates only;  *)
(*    where it writes a state that has an update waiting, the click's      *)
(*    value, being the later one, is the one that lasts.                   *)
(*  - null is Null (-1) for numbers that are otherwise >= 0, and NoHandle  *)
(*    (0) for handles, which the browser numbers from 1.                   *)
(*  - A character is its code point.                                       *)
(***************************************************************************)
EXTENDS Integers, Sequences, FiniteSets, TLC

VARIABLES
    selectedMinutes,    \* useState(30)
    breakMinutes,       \* useState(null)
    running,            \* useState(false)
    secondsLeft,        \* useState(selectedMinutes * 60)
    elapsed,            \* useState(0): a number, seconds
    tasks,              \* useState([...]) : sequence of [id, text, done]
    newTask,            \* useState("") : sequence of characters
    sessionsCompleted,  \* useState(0)
    celebrate,          \* useState(false)
    pending,            \* state updates waiting for their render
    audioCtxRef,        \* useRef(null)
    rafRef,             \* useRef(null)
    startTimestampRef,  \* useRef(null): a number, ms
    totalSecondsRef,    \* useRef(selectedMinutes * 60)
    curveRef,           \* useRef(sampleProductivityCurve(selectedMinutes))
    mounted,            \* the component is mounted
    now,                \* the clock, ms
    lastFrame,          \* the timestamp of the last frame that ran a callback
    rafQueue,           \* handles of the frame callbacks the browser holds
    rafAt,              \* the clock when the last frame callback was requested
    celebrateTimers,    \* deadlines of the pending setTimeout(..., 4200)
    audioTimers,        \* pending setTimeout(..., 1000): [at, ctx]
    audioOpen,          \* audio contexts constructed and not closed
    audioMade,          \* number of audio contexts constructed so far
    lastOp,             \* history: the event that produced this state
    resume              \* history: <<elapsed, now>> at the last start, or <<>>

vars == <<selectedMinutes, breakMinutes, running, secondsLeft, elapsed, tasks,
          newTask, sessionsCompleted, celebrate, pending, audioCtxRef, rafRef,
          startTimestampRef, totalSecondsRef, curveRef, mounted, now,
          lastFrame, rafQueue, rafAt, celebrateTimers, audioTimers,
          audioOpen, audioMade, lastOp, resume>>

timerVars == <<selectedMinutes, breakMinutes, running, secondsLeft, elapsed,
               sessionsCompleted, celebrate, pending, audioCtxRef, rafRef,
               startTimestampRef, totalSecondsRef, curveRef, mounted, now,
               lastFrame, rafQueue, rafAt, celebrateTimers, audioTimers,
               audioOpen, audioMade, resume>>

taskVars == <<tasks, newTask>>

audioVars == <<audioCtxRef, audioTimers, audioOpen, audioMade>>

---------------------------------------------------------------------------
(* Bounds of the exploration *)

MaxNow == 900000
MaxSessions == 2
MaxAdds == 2

\* The amounts of time that pass between two events.  They leave a 5 or
\* 10 minute session before its end (257.001 s, 514.002 s) and past its end
\* (514.002 s, 600.5 s, 771.003 s), and let time pass while the timer is
\* paused or a timeout is pending.  257.001 s is an elapsed time that the
\* doubles do not carry through line 110 unchanged: 257.001 * 1000 is
\* 257000.99999999997.
TimeSteps == {257001, 600500}

\* How long before the clock reading of the [running] effect (line 110)
\* the frame began that runs the callback the effect requests: not at all,
\* or 1 ms.  The timestamp handed to tick (line 112) is the time its frame
\* began.
FrameLags == {0, 1}

\* The texts typed or pasted into the task input box: empty, blank, plain,
\* padded with blanks, with a blank inside, a tab, padded with tabs, and
\* padded with a no-break space and a line feed.
TypedTexts ==
    { <<>>, <<32>>, <<32, 32, 32>>, <<97>>, <<32, 97, 32>>,
      <<32, 98, 32, 99>>, <<9>>, <<9, 97, 9>>, <<160, 97, 32, 98, 10>> }

\* The readings of Date.now() when a task is added: two successive
\* milliseconds.  Two tasks can be added within one millisecond.
DateNowValues == {1000, 1001}

---------------------------------------------------------------------------
(* Values *)

Null == -1
NoHandle == 0
NoBreak == 0
MsPerSecond == 1000
SecondsPerMinute == 60
CelebrationMs == 4200
AudioCloseMs == 1000
DefaultSamples == 200
InitialMinutes == 30

Max(a, b) == IF a >= b THEN a ELSE b

Range(s) == {s[i] : i \in DOMAIN s}

DURATIONS == <<120, 90, 60, 30, 15, 10, 5>>

BREAK_RECOMMENDATIONS ==
    (120 :> <<15, 20, 30>>) @@ (90 :> <<15, 20>>) @@ (60 :> <<10, 15>>) @@
    (30 :> <<5, 10>>) @@ (15 :> <<3, 5>>) @@ (10 :> <<2, 3>>) @@ (5 :> <<1, 2>>)

\* the peak count with > in place of >= at 90
CurvePeaksStrict(minutes) ==
    IF minutes > 90 THEN 3
    ELSE IF minutes >= 60 THEN 2
    ELSE IF minutes >= 30 THEN 1
    ELSE 1

\* The peak count of sampleProductivityCurve
CurvePeaks(minutes) ==
    IF minutes >= 90 THEN 3
    ELSE IF minutes >= 60 THEN 2
    ELSE IF minutes >= 30 THEN 1
    ELSE 1

\* sampleProductivityCurve(minutes, samples): the parameters that determine
\* the sampled points (the heights are a fixed function of them).
sampleProductivityCurve(minutes, samples) ==
    [tMax |-> minutes * SecondsPerMinute,
     peaks |-> CurvePeaks(minutes),
     samples |-> samples]

\* The iterations i = lo..hi of the loop of lines 55-67, in order: each
\* pushes one point.  x is the fraction i / samples, written
\* <<i, samples>>; the height y is a real number and is left out.  The
\* range is evaluated in halves, which yields the same sequence as going
\* through it one by one.
RECURSIVE PointsLoop(_, _, _)
PointsLoop(lo, hi, samples) ==
    IF lo > hi THEN <<>>
    ELSE IF lo = hi THEN <<[x |-> <<lo, samples>>]>>
    ELSE LET mid == (lo + hi) \div 2
         IN  PointsLoop(lo, mid, samples) \o PointsLoop(mid + 1, hi, samples)

\* The points sampleProductivityCurve returns (line 71 keeps every x)
CurvePoints(curve) == PointsLoop(0, curve.samples, curve.samples)

---------------------------------------------------------------------------
(* Numbers *)

\* A JavaScript number (an IEEE 754 double of the size the timer meets) is
\* kept exactly, as sign, whole part and FracLimbs digits of LimbBits bits
\* after the binary point:
\*   value = (IF neg THEN -1 ELSE 1) * (int + SUM frac[i] * 2^(-LimbBits*i))
\* Zero is [neg |-> FALSE, int |-> 0, frac |-> Zeros].  The clock readings
\* are whole milliseconds below 2^30, so that every number lines 110-117
\* compute is 0 or at least 2^-67 in size and a multiple of 2^-120.
LimbBits == 20
LimbBase == 1048576
FracLimbs == 6
MantissaBits == 53

Zeros == [i \in 1..FracLimbs |-> 0]

\* the number n, a whole number
FromInt(n) ==
    [neg |-> n < 0, int |-> IF n < 0 THEN -n ELSE n, frac |-> Zeros]

\* the number of binary digits of n, 0 <= n < 2^30
RECURSIVE BitLen(_)
BitLen(n) == IF n = 0 THEN 0 ELSE 1 + BitLen(n \div 2)

\* |x| against |y|: -1, 0 or 1
MagCmp(x, y) ==
    IF x.int # y.int THEN (IF x.int < y.int THEN -1 ELSE 1)
    ELSE IF x.frac = y.frac THEN 0
    ELSE LET i == CHOOSE i \in 1..FracLimbs :
                      /\ x.frac[i] # y.frac[i]
                      /\ \A j \in 1..(i - 1) : x.frac[j] = y.frac[j]
         IN  IF x.frac[i] < y.frac[i] THEN -1 ELSE 1

\* x against y: -1, 0 or 1
Cmp(x, y) ==
    IF x.neg # y.neg THEN (IF x.neg THEN -1 ELSE 1)
    ELSE IF x.neg THEN MagCmp(y, x) ELSE MagCmp(x, y)

\* |x| + |y| with the sign of x, exactly
MagAdd(x, y) ==
    LET c[i \in 1..(FracLimbs + 1)] ==
            IF i = FracLimbs + 1 THEN 0
            ELSE (x.frac[i] + y.frac[i] + c[i + 1]) \div LimbBase
    IN  [neg |-> x.neg,
         int |-> x.int + y.int + c[1],
         frac |-> [i \in 1..FracLimbs |->
                      (x.frac[i] + y.frac[i] + c[i + 1]) % LimbBase]]

\* |x| - |y| with the sign of x, exactly, for |x| > |y|
MagSub(x, y) ==
    LET b[i \in 1..(FracLimbs + 1)] ==
            IF i = FracLimbs + 1 THEN 0
            ELSE IF x.frac[i] - y.frac[i] - b[i + 1] < 0 THEN 1 ELSE 0
    IN  [neg |-> x.neg,
         int |-> x.int - y.int - b[1],
         frac |-> [i \in 1..FracLimbs |->
                      (x.frac[i] - y.frac[i] - b[i + 1]) % LimbBase]]

\* x - y, exactly
ExactMinus(x, y) ==
    IF x.neg # y.neg THEN MagAdd(x, y)
    ELSE IF MagCmp(x, y) = 0 THEN FromInt(0)
    ELSE IF MagCmp(x, y) > 0 THEN MagSub(x, y)
    ELSE [MagSub(y, x) EXCEPT !.neg = ~x.neg]

\* x * k, exactly, for a whole number k > 0
ExactTimes(x, k) ==
    LET c[i \in 1..(FracLimbs + 1)] ==
            IF i = FracLimbs + 1 THEN 0
            ELSE (x.frac[i] * k + c[i + 1]) \div LimbBase
    IN  [neg |-> x.neg,
         int |-> x.int * k + c[1],
         frac |-> [i \in 1..FracLimbs |->
                      (x.frac[i] * k + c[i + 1]) % LimbBase]]

\* the remainders of the long division of |x| by k, digit by digit
DivRem(x, k) ==
    LET r[i \in 0..FracLimbs] ==
            IF i = 0 THEN x.int % k
            ELSE (r[i - 1] * LimbBase + x.frac[i]) % k
    IN  r

\* |x| / k with the sign of x, cut off after the last digit
DivCut(x, k) ==
    LET r == DivRem(x, k)
    IN  [neg |-> x.neg,
         int |-> x.int \div k,
         frac |-> [i \in 1..FracLimbs |->
                      (r[i - 1] * LimbBase + x.frac[i]) \div k]]

\* The binary digits after the binary point that a double keeps of
\* x # 0: MantissaBits digits from the leading one on
KeptBits(x) ==
    IF x.int > 0 THEN MantissaBits - BitLen(x.int)
    ELSE LET j == CHOOSE i \in 1..FracLimbs :
                      x.frac[i] # 0 /\ \A h \in 1..(i - 1) : x.frac[h] = 0
         IN  LimbBits * j - BitLen(x.frac[j]) + MantissaBits

\* x rounded to k binary digits after the binary point, ties to the even
\* last digit; more is TRUE when the exact value was greater in size than
\* x by less than the last digit of x.
RoundTo(x, more, k) ==
    LET q == k \div LimbBits
        w == 2^(LimbBits - (k % LimbBits))
    IN  IF q >= FracLimbs THEN x
        ELSE
        LET cut == x.frac[q + 1]
            low == cut % w
            restZero == ~more /\ \A i \in (q + 2)..FracLimbs : x.frac[i] = 0
            lastOdd == IF w < LimbBase THEN (cut \div w) % 2 = 1
                       ELSE IF q = 0 THEN x.int % 2 = 1
                       ELSE x.frac[q] % 2 = 1
            up == \/ 2 * low > w
                  \/ 2 * low = w /\ (~restZero \/ lastOdd)
            kept == [x EXCEPT !.frac =
                        [i \in 1..FracLimbs |->
                            IF i <= q THEN x.frac[i]
                            ELSE IF i = q + 1 THEN cut - low ELSE 0]]
            unit == [neg |-> x.neg, int |-> 0,
                     frac |-> [i \in 1..FracLimbs |->
                                  IF i = q + 1 THEN w ELSE 0]]
        IN  IF up
            THEN CHOOSE r \in {MagAdd(a, b) : a \in {kept}, b \in {unit}} :
                     TRUE
            ELSE kept

\* The double nearest to x (the IEEE 754 default rounding)
Nearest(x, more) ==
    IF x.int = 0 /\ x.frac = Zeros THEN FromInt(0)
    ELSE CHOOSE r \in {RoundTo(x, more, k) : k \in {KeptBits(x)}} : TRUE

\* The operations of the program.  Each operand and each exact result is
\* taken through a bound variable, which holds it as a value, evaluated
\* once.

\* the JavaScript x - y
Minus(x, y) ==
    CHOOSE r \in {Nearest(d, FALSE) :
                     d \in {ExactMinus(a, b) : a \in {x}, b \in {y}}} : TRUE

\* the JavaScript x * k, k a whole number > 0
Times(x, k) ==
    CHOOSE r \in {Nearest(p, FALSE) : p \in {ExactTimes(a, k) : a \in {x}}} :
        TRUE

\* the JavaScript x / k, k a whole number > 0
Over(x, k) ==
    CHOOSE r \in {Nearest(q[1], q[2]) :
                     q \in {<<DivCut(a, k), DivRem(a, k)[FracLimbs] # 0>> :
                               a \in {x}}} : TRUE

\* Math.max(0, x)
AtLeastZero(x) == IF x.neg THEN FromInt(0) ELSE x

\* Math.floor(x), a whole number
Floor(x) ==
    IF x.neg THEN -(x.int + (IF x.frac = Zeros THEN 0 ELSE 1))
    ELSE x.int

\* Math.ceil(x), a whole number
Ceil(x) ==
    IF x.neg THEN -x.int
    ELSE x.int + (IF x.frac = Zeros THEN 0 ELSE 1)

---------------------------------------------------------------------------
(* React: state updates and their render *)

\* No update is waiting
NoUpdates == [f \in {} |-> 0]

\* The value of state f once the updates u are rendered, cur being its
\* value now.  An update of sessionsCompleted is the functional update
\* s => s + 1 (line 122): u holds how many of them were made.
Val(u, f, cur) ==
    IF f \notin DOMAIN u THEN cur
    ELSE IF f = "sessionsCompleted" THEN cur + u[f]
    ELSE u[f]

\* The updates u made after the updates p: for each state the later set
\* call is the one that lasts, and the increments add up.
After(u, p) ==
    [f \in DOMAIN u \cup DOMAIN p |->
        IF f = "sessionsCompleted"
        THEN (IF f \in DOMAIN u THEN u[f] ELSE 0)
             + (IF f \in DOMAIN p THEN p[f] ELSE 0)
        ELSE IF f \in DOMAIN u THEN u[f] ELSE p[f]]

\* The updates of p to the states that u does not write
Without(p, u) == [f \in DOMAIN p \ DOMAIN u |-> p[f]]

\* Updates made outside a click wait for a render; those made to an
\* unmounted component are dropped.
Queued(u) == IF mounted THEN After(u, pending) ELSE pending

---------------------------------------------------------------------------
(* The browser *)

\* requestAnimationFrame returns a handle that no one holds: handles are
\* opaque, and the only places that keep one are rafQueue and rafRef.
FreshHandle ==
    CHOOSE h \in 1..(Cardinality(rafQueue) + 2) :
        /\ h \notin rafQueue
        /\ h # rafRef
        /\ \A g \in 1..(h - 1) : g \in rafQueue \/ g = rafRef

\* cancelAnimationFrame(handle): the queue afterwards
cancelAnimationFrame(queue, handle) == queue \ {handle}

\* The timestamps the frame that runs the requested callback can have.  A
\* frame begins after the one before it.  It can have begun before the
\* callback was requested when no time has passed since the request; the
\* clock moves in steps of minutes, so that otherwise it began at `now`.
FrameStamps ==
    {now - lag : lag \in (IF rafAt = now THEN FrameLags ELSE {0})}
        \cap ((lastFrame + 1)..now)

---------------------------------------------------------------------------
(* Initial state: the component after its first render and mount effects.  *)
(* The mount run of the [selectedMinutes] effect writes the values the     *)
(* state already has and cancels the null handle; the [running] effect     *)
(* returns at once.                                                        *)

\* "Read article", "Write report" (lines 81-82)
Chars1 == <<82, 101, 97, 100, 32, 97, 114, 116, 105, 99, 108, 101>>
Chars2 == <<87, 114, 105, 116, 101, 32, 114, 101, 112, 111, 114, 116>>

InitialTasks ==
    << [id |-> 1, text |-> Chars1, done |-> FALSE],
       [id |-> 2, text |-> Chars2, done |-> FALSE] >>

Init ==
    /\ selectedMinutes = InitialMinutes
    /\ breakMinutes = Null
    /\ running = FALSE
    /\ secondsLeft = InitialMinutes * SecondsPerMinute
    /\ elapsed = FromInt(0)
    /\ tasks = InitialTasks
    /\ newTask = <<>>
    /\ sessionsCompleted = 0
    /\ celebrate = FALSE
    /\ pending = NoUpdates
    /\ audioCtxRef = NoHandle
    /\ rafRef = NoHandle
    /\ startTimestampRef = Null
    /\ totalSecondsRef = InitialMinutes * SecondsPerMinute
    /\ curveRef = sampleProductivityCurve(InitialMinutes, DefaultSamples)
    /\ mounted = TRUE
    /\ now = 0
    /\ lastFrame = Null
    /\ rafAt = Null
    /\ rafQueue = {}
    /\ celebrateTimers = <<>>
    /\ audioTimers = {}
    /\ audioOpen = {}
    /\ audioMade = 0
    /\ lastOp = "init"
    /\ resume = <<>>

---------------------------------------------------------------------------
(* Timer engine *)

\* tick, line 113: elapsedSec for the frame timestamp t
ElapsedSec(t) ==
    AtLeastZero(Over(Minus(FromInt(t), startTimestampRef), MsPerSecond))

\* left, with Math.floor in place of Math.ceil
LeftFloor(total, elapsedSec) ==
    Max(0, Floor(Minus(FromInt(total), elapsedSec)))

\* tick, line 115: left
Left(total, elapsedSec) == Max(0, Ceil(Minus(FromInt(total), elapsedSec)))

\* the end test with > in place of >=
SessionEndedStrict(elapsedSec) ==
    Cmp(elapsedSec, FromInt(totalSecondsRef)) > 0

\* tick, line 117: the session has ended
SessionEnded(elapsedSec) == Cmp(elapsedSec, FromInt(totalSecondsRef)) >= 0

\* [running] effect, line 110: the anchor of a run started now, e being
\* the elapsed time of the render the effect belongs to
StartAnchor(e) == Minus(FromInt(now), Times(e, MsPerSecond))

\* the [running] effect without a cleanup
RunningCleanupMissing(queue) == queue

\* cleanup of the [running] effect (line 130); it exists only when the
\* effect last ran with running = true
RunningCleanup(queue) ==
    IF running THEN cancelAnimationFrame(queue, rafRef) ELSE queue

\* the set calls of the [selectedMinutes] effect without setRunning(false)
SelectedMinutesUpdatesKeepRunning(d) ==
    ("secondsLeft" :> d * SecondsPerMinute) @@ ("elapsed" :> FromInt(0)) @@
    ("breakMinutes" :> Null)

\* the set calls of the [selectedMinutes] effect without setBreakMinutes(null)
SelectedMinutesUpdatesKeepBreak(d) ==
    ("secondsLeft" :> d * SecondsPerMinute) @@ ("elapsed" :> FromInt(0)) @@
    ("running" :> FALSE)

\* The set calls of the [selectedMinutes] effect (lines 97, 98, 101, 102)
SelectedMinutesUpdates(d) ==
    ("secondsLeft" :> d * SecondsPerMinute) @@ ("elapsed" :> FromInt(0)) @@
    ("breakMinutes" :> Null) @@ ("running" :> FALSE)

\* useEffect [selectedMinutes] (lines 95-104) for a render with
\* selectedMinutes = d: the refs are written at once, the set calls wait
\* for the next render behind the updates p.  Its cancelAnimationFrame
\* (line 103) is applied in Commit.
SelectedMinutesEffect(d, p) ==
    /\ totalSecondsRef' = d * SecondsPerMinute
    /\ curveRef' = sampleProductivityCurve(d, DefaultSamples)
    /\ pending' = After(SelectedMinutesUpdates(d), p)

\* the [running] effect without the first requestAnimationFrame
RunningEffectNoFrame(e, queue) ==
    /\ startTimestampRef' = StartAnchor(e)
    /\ rafRef' = rafRef
    /\ rafQueue' = queue
    /\ rafAt' = rafAt

\* useEffect [running] (lines 106-132) for a render in which running
\* became true and elapsed is e
RunningEffect(e, queue) ==
    /\ startTimestampRef' = StartAnchor(e)
    /\ rafRef' = FreshHandle
    /\ rafQueue' = queue \cup {FreshHandle}
    /\ rafAt' = now

\* A render of the updates u and the effects it causes.  p are the updates
\* that go on waiting, queue is the frame queue before the effects.  The
\* cleanup of the [running] effect runs when running became false, the
\* [selectedMinutes] effect when selectedMinutes changed, the [running]
\* effect when running became true.
Commit(u, p, queue) ==
    LET sel == Val(u, "selectedMinutes", selectedMinutes)
        run == Val(u, "running", running)
        el == Val(u, "elapsed", elapsed)
        afterCleanup == IF run THEN queue ELSE RunningCleanup(queue)
        afterEffect ==
            IF sel # selectedMinutes
            THEN cancelAnimationFrame(afterCleanup, rafRef)
            ELSE afterCleanup
    IN  /\ selectedMinutes' = sel
        /\ breakMinutes' = Val(u, "breakMinutes", breakMinutes)
        /\ running' = run
        /\ secondsLeft' = Val(u, "secondsLeft", secondsLeft)
        /\ elapsed' = el
        /\ sessionsCompleted' = Val(u, "sessionsCompleted", sessionsCompleted)
        /\ celebrate' = Val(u, "celebrate", celebrate)
        /\ IF sel # selectedMinutes
           THEN SelectedMinutesEffect(sel, p)
           ELSE /\ pending' = p
                /\ UNCHANGED <<totalSecondsRef, curveRef>>
        /\ IF run /\ ~running
           THEN /\ RunningEffect(el, afterEffect)
                /\ resume' = <<el, now>>
           ELSE /\ rafQueue' = afterEffect
                /\ resume' = IF run THEN resume ELSE <<>>
                /\ UNCHANGED <<rafRef, rafAt, startTimestampRef>>

\* A click whose handler made the updates u and left the frame queue
\* `queue`: React renders u before the handler's turn ends.
Click(u, queue) == Commit(u, Without(pending, u), queue)

\* React renders the updates that were waiting
render ==
    /\ mounted
    /\ pending # NoUpdates
    /\ Commit(pending, NoUpdates, rafQueue)
    /\ lastOp' = "render"
    /\ UNCHANGED <<mounted, now, lastFrame, celebrateTimers, audioVars,
                   taskVars>>

\* playVictorySound (lines 168-192).  snd is what the platform does:
\*  "unsupported": the constructor is missing or throws;
\*  "throws": the context is constructed and a later call throws;
\*  "ok": every call succeeds and the close is scheduled.
playVictorySound(snd) ==
    IF snd = "unsupported"
    THEN UNCHANGED <<audioCtxRef, audioTimers, audioOpen, audioMade>>
    ELSE /\ audioMade' = audioMade + 1
         /\ audioCtxRef' = audioMade + 1
         /\ audioOpen' = audioOpen \cup {audioMade + 1}
         /\ audioTimers' =
              IF snd = "ok"
              THEN audioTimers \cup {[at |-> now + AudioCloseMs, ctx |-> audioMade + 1]}
              ELSE audioTimers

SoundOutcomes == {"ok", "unsupported", "throws"}

\* triggerCelebration without the setTimeout that clears the flag
triggerCelebrationNoTimeout(snd, u) ==
    /\ pending' = Queued(After("celebrate" :> TRUE, u))
    /\ playVictorySound(snd)
    /\ celebrateTimers' = celebrateTimers

\* triggerCelebration with a playVictorySound that lets its exception out:
\* the setTimeout of line 165 is reached only when the sound played
triggerCelebrationUncaught(snd, u) ==
    /\ pending' = Queued(After("celebrate" :> TRUE, u))
    /\ playVictorySound(snd)
    /\ celebrateTimers' = IF snd = "ok"
                          THEN Append(celebrateTimers, now + CelebrationMs)
                          ELSE celebrateTimers

\* triggerCelebration (lines 162-166), u being the updates its caller has
\* made before the call
triggerCelebration(snd, u) ==
    /\ pending' = Queued(After("celebrate" :> TRUE, u))
    /\ playVictorySound(snd)
    /\ celebrateTimers' = Append(celebrateTimers, now + CelebrationMs)

\* the end of the session without setElapsed(totalSecondsRef.current)
EndElapsedUnclamped(elapsedSec) == elapsedSec

\* tick, line 120: the elapsed time stored when the session has ended
EndElapsed(elapsedSec) == FromInt(totalSecondsRef)

\* tick, lines 114 and 116: the set calls of every frame
TickUpdates(elapsedSec, left) ==
    ("elapsed" :> elapsedSec) @@ ("secondsLeft" :> left)

\* tick, lines 119-122: the set calls of the frame that ends the session,
\* made after those of lines 114 and 116
CompletionUpdates(elapsedSec, left) ==
    After(("running" :> FALSE) @@ ("elapsed" :> EndElapsed(elapsedSec)) @@
          ("secondsLeft" :> 0) @@ ("sessionsCompleted" :> 1),
          TickUpdates(elapsedSec, left))

\* tick (lines 112-127): the frame callback with handle h runs in a frame
\* that began at ts
tick(h, ts, snd) ==
    /\ h \in rafQueue
    /\ ts \in FrameStamps
    /\ lastFrame' = ts
    /\ \E elapsedSec \in {ElapsedSec(ts)} :
       \E left \in {Left(totalSecondsRef, elapsedSec)} :
           IF SessionEnded(elapsedSec)
           THEN /\ Val(pending, "sessionsCompleted", sessionsCompleted)
                      < MaxSessions
                /\ triggerCelebration(snd, CompletionUpdates(elapsedSec, left))
                /\ rafQueue' = rafQueue \ {h}
                /\ lastOp' = "complete"
                /\ UNCHANGED <<rafRef, rafAt>>
           ELSE /\ pending' = Queued(TickUpdates(elapsedSec, left))
                /\ rafRef' = FreshHandle
                /\ rafQueue' = (rafQueue \ {h}) \cup {FreshHandle}
                /\ rafAt' = now
                /\ lastOp' = "tick"
                /\ UNCHANGED <<celebrateTimers, audioVars>>
    /\ UNCHANGED <<selectedMinutes, breakMinutes, running, secondsLeft,
                   elapsed, sessionsCompleted, celebrate, startTimestampRef,
                   totalSecondsRef, curveRef, mounted, now, resume, taskVars>>

\* startStop (lines 134-142), with the render and the [running] effect
startStop ==
    /\ mounted
    /\ IF running
       THEN /\ Click("running" :> FALSE,
                     cancelAnimationFrame(rafQueue, rafRef))
            /\ lastOp' = "pause"
       ELSE /\ Click("running" :> TRUE, rafQueue)
            /\ lastOp' = "start"
    /\ UNCHANGED <<mounted, now, lastFrame, celebrateTimers, audioVars,
                   taskVars>>

\* the set calls of resetTimer with the session counter cleared as well
ResetUpdatesClearCounter ==
    ("running" :> FALSE) @@
    ("secondsLeft" :> selectedMinutes * SecondsPerMinute) @@
    ("elapsed" :> FromInt(0)) @@ ("sessionsCompleted" :> -sessionsCompleted)

\* the set calls of resetTimer without setElapsed(0)
ResetUpdatesKeepElapsed ==
    ("running" :> FALSE) @@
    ("secondsLeft" :> selectedMinutes * SecondsPerMinute)

\* The set calls of resetTimer (lines 145, 147, 148)
ResetUpdates ==
    ("running" :> FALSE) @@
    ("secondsLeft" :> selectedMinutes * SecondsPerMinute) @@
    ("elapsed" :> FromInt(0))

\* resetTimer (lines 144-149), with the render
resetTimer ==
    /\ mounted
    /\ Click(ResetUpdates, cancelAnimationFrame(rafQueue, rafRef))
    /\ lastOp' = "reset"
    /\ UNCHANGED <<mounted, now, lastFrame, celebrateTimers, audioVars,
                   taskVars>>

\* A duration button (line 280): setSelectedMinutes(d), with the render and
\* the [selectedMinutes] effect.  Setting the value the state already has
\* causes no render and no effect.
selectDuration(d) ==
    /\ mounted
    /\ IF d = selectedMinutes
       THEN /\ lastOp' = "selectSame"
            /\ UNCHANGED <<selectedMinutes, breakMinutes, running,
                           secondsLeft, elapsed, sessionsCompleted, celebrate,
                           pending, rafRef, startTimestampRef,
                           totalSecondsRef, curveRef, rafQueue, rafAt,
                           resume>>
       ELSE /\ Click("selectedMinutes" :> d, rafQueue)
            /\ lastOp' = IF running THEN "selectRunning" ELSE "select"
    /\ UNCHANGED <<mounted, now, lastFrame, celebrateTimers, audioVars,
                   taskVars>>

\* the break buttons without the "No break" button
BreakOptionsWithoutNone == Range(BREAK_RECOMMENDATIONS[selectedMinutes])

\* The break buttons rendered for the current duration (lines 294-306)
BreakOptions == Range(BREAK_RECOMMENDATIONS[selectedMinutes]) \cup {NoBreak}

\* A break button (lines 298, 304): setBreakMinutes(b), with the render
selectBreak(b) ==
    /\ mounted
    /\ b \in BreakOptions
    /\ Click("breakMinutes" :> b, rafQueue)
    /\ lastOp' = "break"
    /\ UNCHANGED <<mounted, now, lastFrame, celebrateTimers, audioVars,
                   taskVars>>

\* The timeout of triggerCelebration (line 165) fires: setCelebrate(false)
celebrationTimeout(i) ==
    /\ i \in DOMAIN celebrateTimers
    /\ celebrateTimers[i] <= now
    /\ pending' = Queued("celebrate" :> FALSE)
    /\ celebrateTimers' = [j \in 1..(Len(celebrateTimers) - 1) |->
                              IF j < i THEN celebrateTimers[j]
                              ELSE celebrateTimers[j + 1]]
    /\ lastOp' = "celebrationTimeout"
    /\ UNCHANGED <<selectedMinutes, breakMinutes, running, secondsLeft,
                   elapsed, sessionsCompleted, celebrate, rafRef,
                   startTimestampRef, totalSecondsRef, curveRef, mounted, now,
                   lastFrame, rafQueue, rafAt, audioVars, resume, taskVars>>

\* What the calls of the audio timeout do: "closed": o.stop() and
\* ctx.close() succeed; "throws": o.stop() or ctx.close() throws (or close
\* is missing), so that the context stays open.
CloseOutcomes == {"closed", "throws"}

\* The timeout of playVictorySound (lines 185-188) fires: o.stop() and
\* try { ctx.close() } catch
audioTimeout(t, out) ==
    /\ t \in audioTimers
    /\ t.at <= now
    /\ audioTimers' = audioTimers \ {t}
    /\ audioOpen' = IF out = "closed" THEN audioOpen \ {t.ctx} ELSE audioOpen
    /\ lastOp' = "audioTimeout"
    /\ UNCHANGED <<selectedMinutes, breakMinutes, running, secondsLeft,
                   elapsed, sessionsCompleted, celebrate, pending,
                   audioCtxRef, rafRef, startTimestampRef, totalSecondsRef,
                   curveRef, mounted, now, lastFrame, rafQueue, rafAt,
                   celebrateTimers, audioMade, resume, taskVars>>

\* The component is torn down: React runs the effects' cleanups and drops
\* the updates that were waiting.
unmount ==
    /\ mounted
    /\ mounted' = FALSE
    /\ pending' = NoUpdates
    /\ rafQueue' = RunningCleanup(rafQueue)
    /\ lastOp' = "unmount"
    /\ UNCHANGED rafAt
    /\ UNCHANGED <<selectedMinutes, breakMinutes, running, secondsLeft,
                   elapsed, sessionsCompleted, celebrate, rafRef,
                   startTimestampRef, totalSecondsRef, curveRef, now,
                   lastFrame, celebrateTimers, audioVars, resume, taskVars>>

\* Time passes, while something can still happen.  The clock moves in
\* steps of minutes: the render of waiting updates comes first.
advanceClock(dt) ==
    /\ now + dt <= MaxNow
    /\ pending = NoUpdates
    /\ mounted \/ celebrateTimers # <<>> \/ audioTimers # {}
    /\ now' = now + dt
    /\ lastOp' = "advance"
    /\ UNCHANGED <<selectedMinutes, breakMinutes, running, secondsLeft,
                   elapsed, sessionsCompleted, celebrate, pending, rafRef,
                   startTimestampRef, totalSecondsRef, curveRef, mounted,
                   lastFrame, rafQueue, rafAt, celebrateTimers, audioVars, resume,
                   taskVars>>

\* The deadlines of the pending timeouts (lines 165 and 185-188) that lie
\* ahead
FutureDeadlines ==
    {d \in Range(celebrateTimers) \cup {t.at : t \in audioTimers} : d > now}

EarliestDeadline ==
    CHOOSE d \in FutureDeadlines : \A e \in FutureDeadlines : d <= e

\* Time passes until the next pending timeout is due.
awaitTimeout ==
    /\ FutureDeadlines # {}
    /\ pending = NoUpdates
    /\ now' = EarliestDeadline
    /\ lastOp' = "advance"
    /\ UNCHANGED <<selectedMinutes, breakMinutes, running, secondsLeft,
                   elapsed, sessionsCompleted, celebrate, pending, rafRef,
                   startTimestampRef, totalSecondsRef, curveRef, mounted,
                   lastFrame, rafQueue, rafAt, celebrateTimers, audioVars,
                   resume, taskVars>>

\* The durations selected in the runs of the timer: two that can end within
\* MaxNow and the initial one
TimerDurations == {5, 10, 30}

\* The timer on a platform without sound: the clicks on Start / Pause,
\* Reset and the duration buttons, the frame callbacks, the renders, the
\* celebration timeout, teardown and the clock.
Next ==
    \/ \E h \in rafQueue, ts \in FrameStamps : tick(h, ts, "unsupported")
    \/ render
    \/ startStop
    \/ resetTimer
    \/ \E d \in TimerDurations : selectDuration(d)
    \/ selectBreak(NoBreak)
    \/ \E i \in DOMAIN celebrateTimers : celebrationTimeout(i)
    \/ unmount
    \/ \E dt \in TimeSteps : advanceClock(dt)

Spec == Init /\ [][Next]_vars

\* The session short enough to end twice within MaxNow
ShortDurations == {5}

\* The steps of the clock that are shorter than such a session
ShortSteps ==
    {dt \in TimeSteps :
        \A d \in ShortDurations : dt < d * SecondsPerMinute * MsPerSecond}

\* The timer without sound and without teardown, with time also passing up
\* to each deadline, under the scheduling the browser gives: a requested
\* frame callback is run, waiting updates are rendered, a due timeout
\* fires, and the clock goes on.
NextLive ==
    \/ \E h \in rafQueue, ts \in FrameStamps : tick(h, ts, "unsupported")
    \/ render
    \/ startStop
    \/ resetTimer
    \/ \E d \in ShortDurations : selectDuration(d)
    \/ \E i \in DOMAIN celebrateTimers : celebrationTimeout(i)
    \/ \E dt \in ShortSteps : advanceClock(dt)
    \/ awaitTimeout

Fairness ==
    /\ WF_vars(\E h \in rafQueue, ts \in FrameStamps :
                   tick(h, ts, "unsupported"))
    /\ WF_vars(render)
    /\ WF_vars(\E i \in DOMAIN celebrateTimers : celebrationTimeout(i))
    /\ WF_vars(\E dt \in ShortSteps : advanceClock(dt))
    /\ WF_vars(awaitTimeout)

LiveSpec == Init /\ [][NextLive]_vars /\ Fairness

\* The celebration of a 5 minute session with each outcome of the sound
\* and of its close, the session started and stopped by Start / Pause.
NextAudio ==
    \/ \E h \in rafQueue, ts \in FrameStamps, snd \in SoundOutcomes :
           tick(h, ts, snd)
    \/ render
    \/ startStop
    \/ selectDuration(5)
    \/ \E i \in DOMAIN celebrateTimers : celebrationTimeout(i)
    \/ \E t \in audioTimers, out \in CloseOutcomes : audioTimeout(t, out)
    \/ \E dt \in TimeSteps : advanceClock(dt)

AudioSpec == Init /\ [][NextAudio]_vars

\* Sessions whose sound plays, with time also passing up to each deadline
NextOverlap ==
    \/ \E h \in rafQueue, ts \in FrameStamps : tick(h, ts, "ok")
    \/ render
    \/ startStop
    \/ selectDuration(5)
    \/ \E i \in DOMAIN celebrateTimers : celebrationTimeout(i)
    \/ \E t \in audioTimers : audioTimeout(t, "closed")
    \/ \E dt \in TimeSteps : advanceClock(dt)
    \/ awaitTimeout

OverlapSpec == Init /\ [][NextOverlap]_vars

\* The duration and break buttons
NextBreak ==
    \/ \E d \in Range(DURATIONS) : selectDuration(d)
    \/ \E b \in BreakOptions : selectBreak(b)
    \/ render
    \/ unmount

BreakSpec == Init /\ [][NextBreak]_vars

---------------------------------------------------------------------------
(* Task list *)

\* The code points String.prototype.trim removes: WhiteSpace (tab, VT, FF,
\* space, no-break space, U+1680, U+2000..U+200A, U+202F, U+205F, U+3000,
\* U+FEFF) and LineTerminator (LF, CR, U+2028, U+2029)
WhiteSpace ==
    {9, 10, 11, 12, 13, 32, 160, 5760, 8232, 8233, 8239, 8287, 12288, 65279}
    \cup (8192..8202)

IsSpace(c) == c \in WhiteSpace

RECURSIVE TrimStart(_)
TrimStart(s) ==
    IF s # <<>> /\ IsSpace(Head(s)) THEN TrimStart(Tail(s)) ELSE s

RECURSIVE TrimEnd(_)
TrimEnd(s) ==
    IF s # <<>> /\ IsSpace(s[Len(s)])
    THEN TrimEnd(SubSeq(s, 1, Len(s) - 1))
    ELSE s

\* String.prototype.trim
trim(s) == TrimEnd(TrimStart(s))

\* The input box (line 342): setNewTask(e.target.value)
setNewTask(v) ==
    /\ mounted
    /\ newTask' = v
    /\ lastOp' = "setNewTask"
    /\ UNCHANGED <<tasks, timerVars>>

\* the appended task with the text as typed
NewTaskEntryUntrimmed(dateNow) == [id |-> dateNow, text |-> newTask, done |-> FALSE]

\* The task appended by addTask (line 153)
NewTaskEntry(dateNow) == [id |-> dateNow, text |-> trim(newTask), done |-> FALSE]

\* addTask (lines 151-155); dateNow is the reading of Date.now()
addTask(dateNow) ==
    /\ mounted
    /\ IF trim(newTask) = <<>>
       THEN /\ lastOp' = "addTaskEmpty"
            /\ UNCHANGED <<tasks, newTask>>
       ELSE /\ Len(tasks) < Len(InitialTasks) + MaxAdds
            /\ tasks' = Append(tasks, NewTaskEntry(dateNow))
            /\ newTask' = <<>>
            /\ lastOp' = "addTask"
    /\ UNCHANGED timerVars

\* The list after toggleTask(id) (line 158)
Toggled(t, id) ==
    [i \in DOMAIN t |->
        IF t[i].id = id THEN [t[i] EXCEPT !.done = ~t[i].done] ELSE t[i]]

\* toggleTask (lines 157-159), called from the checkbox of task i (line 336)
toggleTask(i) ==
    /\ mounted
    /\ i \in DOMAIN tasks
    /\ tasks' = Toggled(tasks, tasks[i].id)
    /\ lastOp' = "toggle"
    /\ UNCHANGED <<newTask, timerVars>>

NextTasks ==
    \/ \E v \in TypedTexts : setNewTask(v)
    \/ \E d \in DateNowValues : addTask(d)
    \/ \E i \in DOMAIN tasks : toggleTask(i)

TaskSpec == Init /\ [][NextTasks]_vars

----------------------------------------------------------------------------
(* The curve sampler as a function of its arguments *)

MaxMinutes == 120
MaxSamples == 3

CurveMinutes == 1..MaxMinutes
CurveSamples == (1..MaxSamples) \cup {DefaultSamples}

\* sampleProductivityCurve(minutes, samples) is called and its result kept
resample(minutes, samples) ==
    /\ curveRef' = sampleProductivityCurve(minutes, samples)
    /\ lastOp' = "sample"
    /\ UNCHANGED <<selectedMinutes, breakMinutes, running, secondsLeft,
                   elapsed, sessionsCompleted, celebrate, pending, rafRef,
                   startTimestampRef, totalSecondsRef, mounted, now,
                   lastFrame, rafQueue, rafAt, celebrateTimers, audioVars, resume,
                   taskVars>>

NextCurve == \E minutes \in CurveMinutes, samples \in CurveSamples :
                 resample(minutes, samples)

CurveSpec == Init /\ [][NextCurve]_vars

---------------------------------------------------------------------------
(* Properties *)

\* The total of the session, as a number of seconds
Total == FromInt(totalSecondsRef)

\* x < y, x <= y for numbers
Below(x, y) == Cmp(x, y) < 0
AtMost(x, y) == Cmp(x, y) <= 0

\* The step is a frame callback
TickStep == lastOp' \in {"tick", "complete"}

\* The step is a click on a duration button other than the selected one
SelectStep == lastOp' \in {"select", "selectRunning"}

\* The render that follows a click on another duration button
SelectRender == lastOp \in {"select", "selectRunning"} /\ lastOp' = "render"

\* The values the state takes at the next render
UpcomingRunning == Val(pending, "running", running)
UpcomingElapsed == Val(pending, "elapsed", elapsed)
UpcomingSecondsLeft == Val(pending, "secondsLeft", secondsLeft)
UpcomingSessions == Val(pending, "sessionsCompleted", sessionsCompleted)
UpcomingCelebrate == Val(pending, "celebrate", celebrate)
UpcomingBreak == Val(pending, "breakMinutes", breakMinutes)

\* C1: a frame tick of a running timer that computes elapsed >= total
\* schedules no frame callback and makes running = false, elapsed = total,
\* secondsLeft = 0 and a session counter one higher than before the tick
\* the values of the next render; and a render leaves the state with
\* exactly the values that were waiting for it.
C1_CompletionTransition ==
    [][ /\ (TickStep /\ AtMost(Total, ElapsedSec(lastFrame')))
           => /\ lastOp' = "complete"
              /\ rafQueue' = {}
              /\ UpcomingRunning' = FALSE
              /\ UpcomingElapsed' = Total
              /\ UpcomingSecondsLeft' = 0
              /\ UpcomingSessions' = UpcomingSessions + 1
        /\ lastOp' = "render"
           => /\ running' = UpcomingRunning
              /\ elapsed' = UpcomingElapsed
              /\ secondsLeft' = UpcomingSecondsLeft
              /\ sessionsCompleted' = UpcomingSessions
              /\ (~UpcomingRunning => rafQueue' = {}) ]_vars

\* the first completion has been rendered
C1_Witness ==
    /\ lastOp = "render"
    /\ sessionsCompleted = 1
    /\ celebrate
    /\ ~running
    /\ elapsed = Total
    /\ secondsLeft = 0
    /\ rafQueue = {}

\* C2: a session is counted only at the end of a run in which elapsed grew
\* to total: the tick that completes a session finds elapsed below total,
\* so a Start from the post-completion state (elapsed = total) counts
\* nothing until a full duration has elapsed again.
C2_OneSessionPerRun ==
    [][ lastOp' = "complete" => Below(UpcomingElapsed, Total) ]_vars

\* The milliseconds of x seconds, exactly
InMs(x) == ExactTimes(x, MsPerSecond)

\* one half
Half ==
    [neg |-> FALSE, int |-> 0,
     frac |-> [i \in 1..FracLimbs |-> IF i = 1 THEN LimbBase \div 2 ELSE 0]]

\* x seconds to the nearest millisecond, for x >= 0
Millis(x) == Floor(MagAdd(InMs(x), Half))

\* C3: while the timer is not running and nothing but time passes, elapsed
\* and secondsLeft stay as they are; after a resume with elapsed = E every
\* tick before the end reports E + (time since the resume), never less
\* than E.  The sum is read to the millisecond: the numbers of the program
\* do not hold every sum of an elapsed time and a time exactly.
C3_PauseResume ==
    [][ /\ (~running /\ lastOp' = "advance")
           => (elapsed' = elapsed /\ secondsLeft' = secondsLeft)
        /\ (lastOp' = "tick" /\ resume # <<>>)
           => /\ Millis(pending'["elapsed"]) >= Millis(resume[1])
              /\ Millis(pending'["elapsed"])
                     <= Millis(resume[1]) + (now - resume[2])
    ]_vars

\* C4: a click on another duration button leaves no frame callback
\* pending, the total and the curve those of the new duration, and the set
\* calls running = false, elapsed = 0, secondsLeft = total, break = none
\* waiting; their render leaves running = false, elapsed = 0, secondsLeft =
\* total = the new duration in seconds, no break selected and no frame
\* callback pending.  The selected duration changes in no other step.
C4_DurationChange ==
    [][ /\ selectedMinutes' # selectedMinutes => SelectStep
        /\ SelectStep
           => /\ selectedMinutes' # selectedMinutes
              /\ rafQueue' = {}
              /\ totalSecondsRef' = selectedMinutes' * SecondsPerMinute
              /\ curveRef'.tMax = selectedMinutes' * SecondsPerMinute
              /\ curveRef'.peaks = CurvePeaks(selectedMinutes')
              /\ {"running", "elapsed", "secondsLeft", "breakMinutes"}
                     \subseteq DOMAIN pending'
              /\ pending'["running"] = FALSE
              /\ pending'["elapsed"] = FromInt(0)
              /\ pending'["secondsLeft"] = selectedMinutes' * SecondsPerMinute
              /\ pending'["breakMinutes"] = Null
        /\ SelectRender
           => /\ running' = FALSE
              /\ rafQueue' = {}
              /\ elapsed' = FromInt(0)
              /\ secondsLeft' = selectedMinutes * SecondsPerMinute
              /\ totalSecondsRef' = selectedMinutes * SecondsPerMinute
              /\ curveRef'.tMax = selectedMinutes * SecondsPerMinute
              /\ breakMinutes' = Null
              /\ selectedMinutes' = selectedMinutes ]_vars

\* 10 minutes were selected while a session ran, after a completed one
\* and with "no break" chosen: the set calls of the effect wait
C4_Witness ==
    /\ lastOp = "selectRunning"
    /\ selectedMinutes = 10
    /\ totalSecondsRef = 600
    /\ sessionsCompleted = 1
    /\ breakMinutes = NoBreak
    /\ rafQueue = {}
    /\ pending = SelectedMinutesUpdates(10)

\* left is max(0, ceil(total - el)), the difference being the number that
\* the subtraction of the numbers total and el gives: left is zero exactly
\* when el >= total, and otherwise the least whole number not below the
\* difference.
RemainingIsCeil(left, el) ==
    /\ left >= 0
    /\ (left = 0) <=> AtMost(Total, el)
    /\ left > 0
       => /\ AtMost(Minus(Total, el), FromInt(left))
          /\ Below(FromInt(left - 1), Minus(Total, el))

\* C5 as stated: in every state secondsLeft is max(0, ceil(total -
\* elapsed)), and is zero only when elapsed >= total.
C5_RemainingIsCeil == RemainingIsCeil(secondsLeft, elapsed)

\* C5: in every state of the mounted component the secondsLeft and the
\* elapsed of the next render (those of the state when no update of them
\* waits) are such that secondsLeft is max(0, ceil(total - elapsed)), the
\* difference being computed in the numbers of the program.
C5_RemainingIsCeilAtRender ==
    mounted => RemainingIsCeil(UpcomingSecondsLeft, UpcomingElapsed)

\* a 5 minute session was paused at 257.001 s and resumed, and its next
\* frame had begun 1 ms before the resume: the tick computed an elapsed
\* time just below 257 s (256.99999999999994) and 44 s remaining
C5_Witness ==
    /\ lastOp = "render"
    /\ running
    /\ totalSecondsRef = 300
    /\ Below(FromInt(256999), InMs(elapsed))
    /\ Below(elapsed, FromInt(257))
    /\ secondsLeft = 44

\* C6: Reset leaves running = false, elapsed = 0, secondsLeft = the selected
\* duration in seconds, no frame callback pending and no set call of
\* running, elapsed or secondsLeft waiting; it keeps the selected duration,
\* total, curve, break selection, task list and session counter; and a
\* Reset right after a Reset changes nothing.
C6_Reset ==
    [][ lastOp' = "reset"
        => /\ running' = FALSE
           /\ elapsed' = FromInt(0)
           /\ secondsLeft' = selectedMinutes * SecondsPerMinute
           /\ rafQueue' = {}
           /\ DOMAIN pending' \cap {"running", "elapsed", "secondsLeft"} = {}
           /\ UNCHANGED <<selectedMinutes, totalSecondsRef, curveRef,
                          breakMinutes, tasks, sessionsCompleted>>
           /\ (lastOp = "reset" => UNCHANGED vars) ]_vars

\* Reset after a rendered completion, with "no break" chosen
C6_Witness ==
    /\ lastOp = "reset"
    /\ sessionsCompleted = 1
    /\ celebrate
    /\ breakMinutes = NoBreak
    /\ elapsed = FromInt(0)
    /\ secondsLeft = selectedMinutes * SecondsPerMinute
    /\ rafQueue = {}

\* C7 as stated: at most one frame callback is pending: exactly one, the
\* one rafRef names, while the mounted timer is running, and none when it
\* is not running or the component is unmounted.
C7_SingleFrameCallback ==
    /\ Cardinality(rafQueue) <= 1
    /\ (running /\ mounted) => rafQueue = {rafRef}
    /\ (~running \/ ~mounted) => rafQueue = {}

\* C7: at most one frame callback is pending: exactly one, the one rafRef
\* names, while the mounted timer is running as of the next render (no
\* setRunning(false) waits), and none when it is not or the component is
\* unmounted.
C7_SingleFrameAtRender ==
    /\ Cardinality(rafQueue) <= 1
    /\ (UpcomingRunning /\ mounted) => rafQueue = {rafRef}
    /\ (~UpcomingRunning \/ ~mounted) => rafQueue = {}

\* the tick that ended the session asked for no frame; running is still
\* true until the render
C7_Witness ==
    /\ lastOp = "complete"
    /\ running
    /\ mounted
    /\ ~UpcomingRunning
    /\ rafQueue = {}

\* t is s without its leading and trailing white space
IsTrimOf(t, s) ==
    /\ t # <<>> => (t[1] \notin WhiteSpace /\ t[Len(t)] \notin WhiteSpace)
    /\ \E i, j \in 0..Len(s) :
          /\ i + Len(t) + j = Len(s)
          /\ \A k \in 1..i : s[k] \in WhiteSpace
          /\ \A k \in 1..Len(t) : s[i + k] = t[k]
          /\ \A k \in 1..j : s[i + Len(t) + k] \in WhiteSpace

\* C8: addTask with a text that is empty after trimming leaves the list
\* unchanged; otherwise the list is the previous list followed by one task
\* with the trimmed text and done = false.  No step removes a task or
\* changes the identifier, text or position of an existing one.
C8_AddTask ==
    [][ /\ lastOp' \in {"addTask", "addTaskEmpty"}
           => IF IsTrimOf(<<>>, newTask)
              THEN tasks' = tasks
              ELSE /\ Len(tasks') = Len(tasks) + 1
                   /\ SubSeq(tasks', 1, Len(tasks)) = tasks
                   /\ IsTrimOf(tasks'[Len(tasks')].text, newTask)
                   /\ tasks'[Len(tasks')].done = FALSE
        /\ Len(tasks') >= Len(tasks)
        /\ \A i \in DOMAIN tasks :
              /\ tasks'[i].id = tasks[i].id
              /\ tasks'[i].text = tasks[i].text ]_vars

\* a text typed between a no-break space and a line feed was added: the
\* new last task holds it trimmed
C8_Witness ==
    /\ lastOp = "addTask"
    /\ Len(tasks) = Len(InitialTasks) + 1
    /\ tasks[Len(tasks)].text = <<97, 32, 98>>
    /\ tasks[Len(tasks)].done = FALSE
    /\ SubSeq(tasks, 1, Len(InitialTasks)) = InitialTasks

\* C9: toggleTask flips the done flag of exactly one task and leaves every
\* other task as it was.
C9_ToggleOne ==
    [][ lastOp' = "toggle"
        => \E i \in DOMAIN tasks :
              tasks' = [tasks EXCEPT ![i].done = ~tasks[i].done] ]_vars

\* C10: the selected duration is one of the seven, and the break options
\* offered are the table entries of the selected duration plus "no break"
\* (60 -> 10, 15, no break; 30 -> 5, 10, no break).
C10_BreakOptions ==
    /\ selectedMinutes \in {120, 90, 60, 30, 15, 10, 5}
    /\ selectedMinutes \in DOMAIN BREAK_RECOMMENDATIONS
    /\ BreakOptions =
         {BREAK_RECOMMENDATIONS[selectedMinutes][i] :
             i \in DOMAIN BREAK_RECOMMENDATIONS[selectedMinutes]} \cup {0}
    /\ selectedMinutes = 60 => BreakOptions = {10, 15, 0}
    /\ selectedMinutes = 30 => BreakOptions = {5, 10, 0}
    /\ lastOp = "break" => breakMinutes \in BreakOptions

\* a break offered for 60 minutes was chosen
C10_Witness ==
    /\ selectedMinutes = 60
    /\ breakMinutes = 15
    /\ lastOp = "break"

\* C11: a completion makes the celebration flag true at the next render;
\* nothing else does, and Start, Pause, Reset and a duration selection
\* leave the flag and the value waiting for it as they are; and a flag
\* that is true is eventually false again (the component stays mounted in
\* this specification).
C11_CelebrationTransient ==
    /\ [][ /\ lastOp' = "complete" => UpcomingCelebrate'
           /\ (~UpcomingCelebrate /\ UpcomingCelebrate')
                 => lastOp' = "complete"
           /\ lastOp' = "render" => celebrate' = UpcomingCelebrate
           /\ (~celebrate /\ celebrate') => lastOp' = "render"
           /\ lastOp' \in {"start", "pause", "reset", "select",
                           "selectRunning", "selectSame"}
                 => /\ celebrate' = celebrate
                    /\ UpcomingCelebrate' = UpcomingCelebrate ]_vars
    /\ (celebrate ~> ~celebrate)

\* the flag of the first completion was cleared by its timeout
C11_Witness ==
    /\ lastOp = "render"
    /\ ~celebrate
    /\ sessionsCompleted = 1
    /\ celebrateTimers = <<>>
    /\ now >= 300000 + CelebrationMs

\* C12: a completion whose sound failed (no close of an audio context was
\* scheduled: the constructor is missing or threw, or a later audio call
\* threw) still makes running = false, elapsed = total, secondsLeft = 0,
\* the counter one higher and the flag true the values of the next render,
\* and arms the 4.2 s timeout.
C12_AudioFailureSwallowed ==
    [][ (lastOp' = "complete" /\ audioTimers' = audioTimers)
          => /\ UpcomingRunning' = FALSE
             /\ UpcomingElapsed' = Total
             /\ UpcomingSecondsLeft' = 0
             /\ UpcomingSessions' = UpcomingSessions + 1
             /\ UpcomingCelebrate'
             /\ celebrateTimers' = Append(celebrateTimers, now + CelebrationMs)
    ]_vars

\* a completion whose audio context was constructed and then threw
C12_Witness ==
    /\ lastOp = "complete"
    /\ audioCtxRef \in audioOpen
    /\ \A t \in audioTimers : t.ctx # audioCtxRef
    /\ UpcomingCelebrate
    /\ ~UpcomingRunning
    /\ celebrateTimers # <<>>

\* C13: the sampler has 3 peaks for 90 minutes and more, 2 from 60 up to
\* 90, 1 below 60 (so 120, 90 -> 3; 60 -> 2; 30, 15, 10, 5 -> 1), and
\* returns samples + 1 points whose x are i / samples for i = 0..samples.
C13_CurveShape ==
    LET minutes == curveRef.tMax \div SecondsPerMinute
        points == CurvePoints(curveRef)
    IN  /\ curveRef.peaks =
              (IF minutes >= 90 THEN 3 ELSE IF minutes >= 60 THEN 2 ELSE 1)
        /\ minutes \in {120, 90} => curveRef.peaks = 3
        /\ minutes = 60 => curveRef.peaks = 2
        /\ minutes \in {30, 15, 10, 5} => curveRef.peaks = 1
        /\ Len(points) = curveRef.samples + 1
        /\ \A i \in 0..curveRef.samples : points[i + 1].x = <<i, curveRef.samples>>

\* the curve of a 90 minute session with the default sample count
C13_Witness ==
    /\ lastOp = "sample"
    /\ curveRef.tMax = 90 * SecondsPerMinute
    /\ curveRef.peaks = 3
    /\ Len(CurvePoints(curveRef)) = DefaultSamples + 1

\* C14 as stated: in every state elapsed is not below 0 and not above the
\* total, the total being that of the selected duration.
C14_ElapsedWithinTotal ==
    /\ totalSecondsRef = selectedMinutes * SecondsPerMinute
    /\ AtMost(FromInt(0), elapsed)
    /\ AtMost(elapsed, Total)

\* C14: the total is that of the selected duration, and in every state of
\* the mounted component the elapsed of the next render (that of the state
\* when no update of it waits) is not below 0 and not above the total,
\* also after a tick that sees a clock value past the end.
C14_ElapsedWithinTotalAtRender ==
    /\ totalSecondsRef = selectedMinutes * SecondsPerMinute
    /\ mounted => /\ AtMost(FromInt(0), UpcomingElapsed)
                  /\ AtMost(UpcomingElapsed, Total)

\* a tick that came after the end of the session
C14_Witness ==
    /\ lastOp = "complete"
    /\ Below(Total, ElapsedSec(lastFrame))
    /\ UpcomingElapsed = Total

\* C15: while the timeout of some completion is pending and not yet due,
\* the celebration flag is true, or true is the value waiting for it.
C15_OverlayFullDuration ==
    mounted => \A i \in DOMAIN celebrateTimers :
                   now < celebrateTimers[i] => UpcomingCelebrate

\* C16: every audio context that is open has its close scheduled.
C16_ContextCloseScheduled ==
    \A c \in audioOpen : \E t \in audioTimers : t.ctx = c

\* C17: no two tasks of the list have the same identifier.
C17_UniqueTaskIds ==
    \A i, j \in DOMAIN tasks : i # j => tasks[i].id # tasks[j].id

\* The increments of the session counter that wait for their render
QueuedSessions == Val(pending, "sessionsCompleted", 0)

\* C18: the session counter never goes down, and it goes up only in a
\* render, by the increments that wait; an increment is added to those
\* that wait only by the completion of a tick, one at a time.  Every other
\* step leaves the counter and the waiting increments as they are, but for
\* teardown, which drops what waits.
C18_CounterOnlyAtCompletion ==
    [][ /\ sessionsCompleted' >= sessionsCompleted
        /\ sessionsCompleted' # sessionsCompleted
              => (lastOp' = "render"
                  /\ sessionsCompleted' = sessionsCompleted + QueuedSessions)
        /\ QueuedSessions' > QueuedSessions
              => (lastOp' = "complete"
                  /\ QueuedSessions' = QueuedSessions + 1)
        /\ QueuedSessions' < QueuedSessions
              => lastOp' \in {"render", "unmount"}
    ]_vars

\* Reset after a completed session kept the count
C18_Witness ==
    /\ lastOp = "reset"
    /\ sessionsCompleted = 1
    /\ elapsed = FromInt(0)

ShortestStep == CHOOSE d \in TimeSteps : \A e \in TimeSteps : d <= e

\* Start was just pressed, and the run can end before the clock and the
\* session counter reach the bounds of the exploration: the clock can
\* still go on, to a value past the end of the session.
CanFinish ==
    /\ lastOp = "start"
    /\ running
    /\ mounted
    /\ UpcomingSessions < MaxSessions
    /\ now <= MaxNow - ShortestStep
    /\ Ceil(startTimestampRef) + totalSecondsRef * MsPerSecond
           <= MaxNow - ShortestStep

Completed ==
    /\ ~running
    /\ elapsed = Total
    /\ secondsLeft = 0

Interrupted == lastOp \in {"pause", "reset", "select", "selectRunning", "unmount"}

\* C19: a started timer, with frame callbacks firing and the clock
\* advancing, eventually completes (running = false, elapsed = total,
\* secondsLeft = 0) unless Pause, Reset, a duration change or teardown
\* comes first.
C19_EventuallyCompletes == [](CanFinish => <>(Completed \/ Interrupted))

\* a 5 minute session ran to its end
C19_Witness ==
    /\ Completed
    /\ lastOp = "render"
    /\ selectedMinutes = 5
    /\ elapsed = FromInt(300)
    /\ sessionsCompleted >= 1

\* C20 as stated: in every state the break selection is null, 0 ("no
\* break") or one of the recommendations of the selected duration.
C20_BreakOfSelectedDuration ==
    breakMinutes \in {Null, NoBreak}
                       \cup Range(BREAK_RECOMMENDATIONS[selectedMinutes])

\* C20: in every state of the mounted component the break selection of
\* the next render (that of the state when no update of it waits) is null,
\* 0 ("no break") or one of the recommendations of the selected duration.
C20_BreakOfSelectedDurationAtRender ==
    mounted => UpcomingBreak \in {Null, NoBreak}
                   \cup Range(BREAK_RECOMMENDATIONS[selectedMinutes])

\* 120 minutes were selected with the 5 minute break of the 30 minute
\* session chosen: the break is still selected, null waits for the render
C20_Witness ==
    /\ lastOp = "select"
    /\ selectedMinutes = 120
    /\ breakMinutes = 5
    /\ UpcomingBreak = Null

====
